---- MODULE Spec2Model ----
(***************************************************************************)
(* The byte-code interpreter of rust_src/src/bytecode.rs: exec_byte_code.   *)
(* One invocation is modelled: its inputs, the operand stack, the program  *)
(* counter, and the ambient binding (specpdl) and handler stacks.          *)
(***************************************************************************)
EXTENDS Integers, Sequences, FiniteSets, TLC

VARIABLES
    bytecode,        \* the byte string, a sequence of bytes 0..255
    constantVector,  \* the constant pool
    maxdepth,        \* the declared maximum stack depth
    args_template,   \* Qnil or a fixnum
    args,            \* the caller-supplied arguments
    operandStack,    \* Vec<LispObject>
    pc,              \* byte offset into bytecode (0-based, as in the source)
    op,              \* the opcode byte fetched last
    specpdl,         \* the ambient binding stack
    symval,          \* the dynamic value of every bindable symbol
    handlerlist,     \* the ambient handler stack (m_handlerlist)
    status,          \* where the invocation stands
    result           \* the value returned, or the data of the signal raised

inputs == <<bytecode, constantVector, maxdepth, args_template, args>>
vars == <<bytecode, constantVector, maxdepth, args_template, args, operandStack,
          pc, op, specpdl, symval, handlerlist, status, result>>

(***************************************************************************)
(* Bounds of the model.                                                    *)
(***************************************************************************)
MaxArgs == 3      \* longest argument list
MaxTmpl == 2      \* largest mandatory / nonrest count of a template
MaxDepth == 2     \* largest declared maxdepth
MaxVarsets == 2   \* most varset instructions between a varbind and its unbind
MaxDeep == 6      \* deepest operand stack of distinct values
MaxTable == 6     \* most entries of a Switch jump table

(***************************************************************************)
(* LispObject.  Every value is a record of the same shape: tag, name       *)
(* (symbol name or string text), n (fixnum value, or the identity of a     *)
(* string or hash table), elems (list elements, hash table entries).       *)
(***************************************************************************)
Sym(s) == [tag |-> "symbol", name |-> s, n |-> 0, elems |-> <<>>]
Fixnum(k) == [tag |-> "fixnum", name |-> "", n |-> k, elems |-> <<>>]
Str(id, s) == [tag |-> "string", name |-> s, n |-> id, elems |-> <<>>]
Qnil == Sym("nil")
Qt == Sym("t")
Qwrong_number_of_arguments == Sym("wrong-number-of-arguments")
Fcons(a, d) == [tag |-> "cons", name |-> "dotted", n |-> 0, elems |-> <<a, d>>]
list(s) == IF s = <<>> THEN Qnil ELSE [tag |-> "cons", name |-> "", n |-> 0, elems |-> s]
make_number(k) == Fixnum(k)
HashTable(id, kv) == [tag |-> "hash_table", name |-> "", n |-> id, elems |-> kv]

is_nil(v) == v = Qnil
is_not_nil(v) == v # Qnil
is_symbol(v) == v.tag = "symbol"
is_cons(v) == v.tag = "cons"
is_list(v) == is_cons(v) \/ is_nil(v)
is_string(v) == v.tag = "string"
is_hash_table(v) == v.tag = "hash_table"
FromBool(b) == IF b THEN Qt ELSE Qnil
\* identity: two values are eq when they are the same object
eq(a, b) == a = b
\* structure: strings are equal when their text is, whatever their identity
equal(a, b) == IF is_string(a) /\ is_string(b) THEN a.name = b.name ELSE a = b

(***************************************************************************)
(* OpCodes (the enum's discriminants, octal in the source).                *)
(***************************************************************************)
Stack_ref == 0
Varref == 8
Varset == 16
Varbind == 24
Call == 32
Unbind == 40
Pophandler == 48
Pushconditioncase == 49
Pushcatch == 50
Nth == 56
Symbolp == 57
Consp == 58
Stringp == 59
Listp == 60
Eq == 61
Constant2 == 129
Goto == 130
Gotoifnil == 131
Gotoifnonnil == 132
Gotoifnilelsepop == 133
Gotoifnonnilelsepop == 134
Return == 135
Discard == 136
Dup == 137
Equal == 154
Elt == 156
Numberp == 167
Integerp == 168
Stack_set == 178
Stack_set2 == 179
Switch == 183
Constant == 192

\* OpCodes::from_u8(op) is Some exactly for the discriminants of the enum
OpCodeTable ==
    (0..50) \cup (56..106) \cup (108..114) \cup (116..127) \cup (129..168)
        \cup (170..179) \cup (182..183) \cup {192}

\* the value of `op` before the first fetch (declared, not yet assigned)
OpUnset == -1

LARGE_NUMBER == 99999999

(***************************************************************************)
(* The argument template (lines 285-298).                                  *)
(***************************************************************************)
rest(tmpl) == IF (tmpl \div 128) % 2 = 1 THEN 1 ELSE 0
mandatory(tmpl) == tmpl % 128
nonrest(tmpl) == tmpl \div 256
\* a faulty variant: the rest flag is not looked at
maxargs_IgnoresRestFlag(tmpl) == LARGE_NUMBER
maxargs(tmpl) == IF rest(tmpl) = 1 THEN LARGE_NUMBER ELSE nonrest(tmpl)
ArityOk(tmpl, nargs) == mandatory(tmpl) <= nargs /\ nargs <= maxargs(tmpl)
pushedargs(tmpl, nargs) == IF nonrest(tmpl) < nargs THEN nonrest(tmpl) ELSE nargs
\* the data xsignal2 raises: (wrong-number-of-arguments (mandatory . nonrest) nargs)
ArityErrorData(tmpl, nargs) ==
    list(<<Qwrong_number_of_arguments,
           Fcons(make_number(mandatory(tmpl)), make_number(nonrest(tmpl))),
           make_number(nargs)>>)
\* a faulty variant: missing optional arguments are padded with nil
BoundStack_PadsOptionals(tmpl, a) ==
    SubSeq(a, 1, pushedargs(tmpl, Len(a)))
        \o [k \in 1 .. (nonrest(tmpl) - pushedargs(tmpl, Len(a))) |-> Qnil]
\* what the binder leaves on the operand stack (lines 311-320)
BoundStack(tmpl, a) ==
    LET nargs == Len(a)
        positional == SubSeq(a, 1, pushedargs(tmpl, nargs))
    IN  IF nonrest(tmpl) < nargs
        THEN Append(positional, list(SubSeq(a, pushedargs(tmpl, nargs) + 1, nargs)))
        ELSE positional

(***************************************************************************)
(* Collaborators that live outside bytecode.rs.                            *)
(***************************************************************************)
Top(s) == s[Len(s)]
Pop(s) == SubSeq(s, 1, Len(s) - 1)
\* symbols whose value cannot be set or bound (nil, t): they are not in symval
IsConstantSymbol(sym) == sym.name \notin DOMAIN symval
\* LispSymbolRef::find_value
find_value(sym) == IF IsConstantSymbol(sym) THEN sym ELSE symval[sym.name]
\* eval::funcall: the Apply capability; its result is an opaque value that
\* depends on the procedure and the arguments, in the order they were given
funcall(slice) == [tag |-> "funcall", name |-> "", n |-> 0, elems |-> slice]
\* remacs_sys::specbind: save the symbol's value on the binding stack, set the new one
specbind_pdl(sym) == Append(specpdl, [symbol |-> sym, old_value |-> find_value(sym)])
\* eval::unbind_to: pop entries down to depth count, restoring each saved value
RECURSIVE unbind_to_symval(_, _, _)
unbind_to_symval(sv, pdl, count) ==
    IF Len(pdl) <= count
    THEN sv
    ELSE unbind_to_symval([sv EXCEPT ![Top(pdl).symbol.name] = Top(pdl).old_value],
                          Pop(pdl), count)
\* threads::c_specpdl_index
c_specpdl_index == Len(specpdl)
\* LispHashTableRef::lookup: the index of the key's entry, 0 when it is Missing
RECURSIVE ht_lookup(_, _, _)
ht_lookup(kv, key, idx) ==
    IF idx > Len(kv) THEN 0
    ELSE IF eq(kv[idx], key) THEN idx
    ELSE ht_lookup(kv, key, idx + 2)
\* LispHashTableRef::get_hash_value
get_hash_value(kv, idx) == kv[idx + 1]

(***************************************************************************)
(* The dispatch loop's reads of the byte string.                           *)
(***************************************************************************)
Byte(i) == bytecode[i + 1]
Fetchable == status = "running" /\ pc < Len(bytecode)
\* op = bytecode[pc], for an opcode of the set S (line 327)
Fetch(S) == Fetchable /\ Byte(pc) \in S /\ op' = Byte(pc)
HasImm(k) == pc + k < Len(bytecode)
Imm1 == Byte(pc + 1)
\* u16::from(bytecode[pc + 1]) + (u16::from(bytecode[pc + 2]) << 8)
Imm2 == Byte(pc + 1) + Byte(pc + 2) * 256
\* the eight opcodes of a family: base+0..5 inline, base+6 one byte, base+7 two bytes
Family(base) == base .. (base + 7)
FamilySlot(base) == Byte(pc) - base
OperandOk(base) ==
    \/ FamilySlot(base) <= 5
    \/ FamilySlot(base) = 6 /\ HasImm(1)
    \/ FamilySlot(base) = 7 /\ HasImm(2)
Operand(base) ==
    IF FamilySlot(base) <= 5 THEN FamilySlot(base)
    ELSE IF FamilySlot(base) = 6 THEN Imm1 ELSE Imm2
Width(base) == IF FamilySlot(base) <= 5 THEN 1 ELSE FamilySlot(base) - 4
\* constantVector.get(i)
ConstOk(i) == i < Len(constantVector)
ConstGet(i) == constantVector[i + 1]

(***************************************************************************)
(* How one iteration of the loop ends.                                     *)
(***************************************************************************)
\* a Rust panic: unwrap on None, an index out of bounds, panic!
Panic ==
    /\ status' = "panicked"
    /\ UNCHANGED <<operandStack, pc, specpdl, symval, handlerlist, result>>
\* a Lisp signal raised by a collaborator
Signal(data) ==
    /\ status' = "signaled"
    /\ result' = data
    /\ UNCHANGED <<operandStack, pc, specpdl, symval, handlerlist>>
\* the collaborator was driven outside its contract (C undefined behaviour)
Undefined ==
    /\ status' = "undefined"
    /\ UNCHANGED <<operandStack, pc, specpdl, symval, handlerlist, result>>
\* the iteration completes: new operand stack, new pc
Continue(stack, newpc) ==
    /\ operandStack' = stack
    /\ pc' = newpc
    /\ UNCHANGED <<specpdl, symval, handlerlist, status, result>>

(***************************************************************************)
(* Entry: the argument binder (lines 285-323).                             *)
(***************************************************************************)
\* lines 299-310: xsignal2 does not return
ArityError ==
    /\ status = "entry"
    /\ is_not_nil(args_template)
    /\ ~ArityOk(args_template.n, Len(args))
    /\ Signal(ArityErrorData(args_template.n, Len(args)))
    /\ UNCHANGED <<inputs, op>>

\* lines 311-323
BindArgs ==
    /\ status = "entry"
    /\ is_not_nil(args_template)
    /\ ArityOk(args_template.n, Len(args))
    /\ operandStack' = BoundStack(args_template.n, args)
    /\ pc' = 0
    /\ status' = "running"
    /\ UNCHANGED <<inputs, op, specpdl, symval, handlerlist, result>>

\* a faulty variant: the arguments are pushed when there is no template
NoTemplate_PushesArgs ==
    /\ status = "entry"
    /\ is_nil(args_template)
    /\ operandStack' = args
    /\ pc' = 0
    /\ status' = "running"
    /\ UNCHANGED <<inputs, op, specpdl, symval, handlerlist, result>>

\* args_template is nil: lines 285-321 are skipped
NoTemplate ==
    /\ status = "entry"
    /\ is_nil(args_template)
    /\ pc' = 0
    /\ status' = "running"
    /\ UNCHANGED <<inputs, op, operandStack, specpdl, symval, handlerlist, result>>

(***************************************************************************)
(* The dispatch loop (lines 326-732), one action per arm of the match.     *)
(***************************************************************************)
\* a faulty variant: running off the end of the code returns nil
FetchOutOfBounds_ReturnsNil ==
    /\ status = "running"
    /\ pc >= Len(bytecode)
    /\ status' = "returned"
    /\ result' = Qnil
    /\ UNCHANGED <<operandStack, pc, specpdl, symval, handlerlist>>
    /\ UNCHANGED <<inputs, op>>

\* bytecode[pc] with pc at or past the end of the slice (line 327)
FetchOutOfBounds ==
    /\ status = "running"
    /\ pc >= Len(bytecode)
    /\ Panic
    /\ UNCHANGED <<inputs, op>>

\* a faulty variant: a constant opcode takes the next byte with it
NoneArm_ConsumesByte ==
    /\ Fetch((0..255) \ OpCodeTable)
    /\ IF Constant <= Byte(pc) /\ Byte(pc) < Constant + Len(constantVector)
       THEN Continue(Append(operandStack, ConstGet(Byte(pc) - Constant)), pc + 2)
       ELSE UNCHANGED <<operandStack, pc, specpdl, symval, handlerlist, status, result>>
    /\ UNCHANGED inputs

\* lines 331-343: from_u8 is None; a push when op indexes the constant vector,
\* and otherwise nothing at all: pc stays where it is
NoneArm ==
    /\ Fetch((0..255) \ OpCodeTable)
    /\ IF Constant <= Byte(pc) /\ Byte(pc) < Constant + Len(constantVector)
       THEN Continue(Append(operandStack, ConstGet(Byte(pc) - Constant)), pc + 1)
       ELSE UNCHANGED <<operandStack, pc, specpdl, symval, handlerlist, status, result>>
    /\ UNCHANGED inputs

\* operandStack[operandStack.len() - usize::from(i)], as a 0-based index
StackRefIndex(len, i) == len - i

\* a faulty variant: the value read also replaces the former top
StackRefArm_OverwritesTop ==
    /\ Fetch((Stack_ref + 1) .. (Stack_ref + 7))
    /\ IF ~OperandOk(Stack_ref) THEN Panic
       ELSE LET idx == StackRefIndex(Len(operandStack), Operand(Stack_ref))
            IN  IF idx < 0 \/ idx >= Len(operandStack) THEN Panic
                ELSE Continue(Append(Append(Pop(operandStack), operandStack[idx + 1]),
                                     operandStack[idx + 1]),
                              pc + Width(Stack_ref))
    /\ UNCHANGED inputs

\* lines 346-368: Stack_ref1..5, Stack_ref6, Stack_ref7
StackRefArm ==
    /\ Fetch((Stack_ref + 1) .. (Stack_ref + 7))
    /\ IF ~OperandOk(Stack_ref) THEN Panic
       ELSE LET idx == StackRefIndex(Len(operandStack), Operand(Stack_ref))
            IN  IF idx < 0 \/ idx >= Len(operandStack) THEN Panic
                ELSE Continue(Append(operandStack, operandStack[idx + 1]),
                              pc + Width(Stack_ref))
    /\ UNCHANGED inputs

\* lines 374-407
VarrefArm ==
    /\ Fetch(Family(Varref))
    /\ IF ~OperandOk(Varref) THEN Panic
       ELSE IF ~ConstOk(Operand(Varref)) THEN Panic
       ELSE IF ~is_symbol(ConstGet(Operand(Varref))) THEN Panic
       ELSE Continue(Append(operandStack, find_value(ConstGet(Operand(Varref)))),
                     pc + Width(Varref))
    /\ UNCHANGED inputs

\* lines 411-444
VarsetArm ==
    /\ Fetch(Family(Varset))
    /\ IF ~OperandOk(Varset) \/ operandStack = <<>> \/ ~ConstOk(Operand(Varset))
       THEN Panic
       ELSE LET v1 == ConstGet(Operand(Varset))
            IN  IF ~is_symbol(v1) THEN Signal(list(<<Sym("wrong-type-argument"), v1>>))
                ELSE IF IsConstantSymbol(v1) THEN Signal(list(<<Sym("setting-constant"), v1>>))
                ELSE /\ symval' = [symval EXCEPT ![v1.name] = Top(operandStack)]
                     /\ operandStack' = Pop(operandStack)
                     /\ pc' = pc + Width(Varset)
                     /\ UNCHANGED <<specpdl, handlerlist, status, result>>
    /\ UNCHANGED inputs

\* lines 446-476
VarbindArm ==
    /\ Fetch(Family(Varbind))
    /\ IF ~OperandOk(Varbind) \/ operandStack = <<>> \/ ~ConstOk(Operand(Varbind))
       THEN Panic
       ELSE LET v1 == ConstGet(Operand(Varbind))
            IN  IF ~is_symbol(v1) THEN Signal(list(<<Sym("wrong-type-argument"), v1>>))
                ELSE IF IsConstantSymbol(v1) THEN Signal(list(<<Sym("setting-constant"), v1>>))
                ELSE /\ specpdl' = specbind_pdl(v1)
                     /\ symval' = [symval EXCEPT ![v1.name] = Top(operandStack)]
                     /\ operandStack' = Pop(operandStack)
                     /\ pc' = pc + Width(Varbind)
                     /\ UNCHANGED <<handlerlist, status, result>>
    /\ UNCHANGED inputs

\* &mut operandStack[len - (argCount + 1)..]: the procedure and its arguments
CallSlice(stack, argCount) == SubSeq(stack, Len(stack) - argCount, Len(stack))
\* a faulty variant: one pop too few, the procedure stays on the stack
CallStack_KeepsProcedure(stack, argCount) ==
    Append(SubSeq(stack, 1, Len(stack) - argCount), funcall(CallSlice(stack, argCount)))
\* the operand stack after the argCount + 1 pops and the push of the result
CallStack(stack, argCount) ==
    Append(SubSeq(stack, 1, Len(stack) - (argCount + 1)), funcall(CallSlice(stack, argCount)))

\* lines 478-514; funcall either returns or leaves by a non-local exit
CallArm ==
    /\ Fetch(Family(Call))
    /\ \/ IF ~OperandOk(Call) THEN Panic
          ELSE IF Len(operandStack) < Operand(Call) + 1 THEN Panic
          ELSE Continue(CallStack(operandStack, Operand(Call)), pc + Width(Call))
       \/ /\ OperandOk(Call)
          /\ Len(operandStack) >= Operand(Call) + 1
          /\ status' = "exited"
          /\ UNCHANGED <<operandStack, pc, specpdl, symval, handlerlist, result>>
    /\ UNCHANGED inputs

\* a faulty variant: the operand is taken for the depth to unwind to
UnbindCount_Absolute(i) == i
\* c_specpdl_index() - i
UnbindCount(i) == c_specpdl_index - i

\* lines 516-538
UnbindArm ==
    /\ Fetch(Family(Unbind))
    /\ IF ~OperandOk(Unbind) THEN Panic
       ELSE IF UnbindCount(Operand(Unbind)) < 0 THEN Undefined
       ELSE /\ symval' = unbind_to_symval(symval, specpdl, UnbindCount(Operand(Unbind)))
            /\ specpdl' = SubSeq(specpdl, 1, UnbindCount(Operand(Unbind)))
            /\ pc' = pc + Width(Unbind)
            /\ UNCHANGED <<operandStack, handlerlist, status, result>>
    /\ UNCHANGED inputs

\* lines 540-544: the one constant opcode that is in the enum
ConstantArm ==
    /\ Fetch({Constant})
    /\ IF ~ConstOk(Byte(pc) - Constant) THEN Panic
       ELSE Continue(Append(operandStack, ConstGet(Byte(pc) - Constant)), pc + 1)
    /\ UNCHANGED inputs

\* lines 546-552
Constant2Arm ==
    /\ Fetch({Constant2})
    /\ IF ~HasImm(2) THEN Panic
       ELSE IF ~ConstOk(Imm2) THEN Panic
       ELSE Continue(Append(operandStack, ConstGet(Imm2)), pc + 3)
    /\ UNCHANGED inputs

\* lines 554-562: m_handlerlist = (*m_handlerlist).next
PophandlerArm ==
    /\ Fetch({Pophandler})
    /\ IF handlerlist = <<>> THEN Undefined
       ELSE /\ handlerlist' = Pop(handlerlist)
            /\ pc' = pc + 1
            /\ UNCHANGED <<operandStack, specpdl, symval, status, result>>
    /\ UNCHANGED inputs

\* lines 565-587: the body of the arm is commented out
PushconditioncaseArm ==
    /\ Fetch({Pushconditioncase})
    /\ UNCHANGED <<operandStack, pc, specpdl, symval, handlerlist, status, result>>
    /\ UNCHANGED inputs

\* line 588: an empty arm
PushcatchArm ==
    /\ Fetch({Pushcatch})
    /\ UNCHANGED <<operandStack, pc, specpdl, symval, handlerlist, status, result>>
    /\ UNCHANGED inputs

\* lines 590-595
GotoArm ==
    /\ Fetch({Goto})
    /\ IF ~HasImm(2) THEN Panic ELSE Continue(operandStack, Imm2)
    /\ UNCHANGED inputs

\* a faulty variant: the tested value stays on the stack when the branch is taken
GotoifnilArm_PeeksWhenTaken ==
    /\ Fetch({Gotoifnil})
    /\ IF ~HasImm(2) \/ operandStack = <<>> THEN Panic
       ELSE IF is_nil(Top(operandStack)) THEN Continue(operandStack, Imm2)
       ELSE Continue(Pop(operandStack), pc + 3)
    /\ UNCHANGED inputs

\* lines 596-606
GotoifnilArm ==
    /\ Fetch({Gotoifnil})
    /\ IF ~HasImm(2) \/ operandStack = <<>> THEN Panic
       ELSE Continue(Pop(operandStack),
                     IF is_nil(Top(operandStack)) THEN Imm2 ELSE pc + 3)
    /\ UNCHANGED inputs

\* lines 607-617
GotoifnonnilArm ==
    /\ Fetch({Gotoifnonnil})
    /\ IF ~HasImm(2) \/ operandStack = <<>> THEN Panic
       ELSE Continue(Pop(operandStack),
                     IF is_not_nil(Top(operandStack)) THEN Imm2 ELSE pc + 3)
    /\ UNCHANGED inputs

\* a faulty variant: the tested value is popped whether or not the branch is taken
GotoifnilelsepopArm_AlwaysPops ==
    /\ Fetch({Gotoifnilelsepop})
    /\ IF ~HasImm(2) \/ operandStack = <<>> THEN Panic
       ELSE Continue(Pop(operandStack),
                     IF is_nil(Top(operandStack)) THEN Imm2 ELSE pc + 3)
    /\ UNCHANGED inputs

\* lines 618-629
GotoifnilelsepopArm ==
    /\ Fetch({Gotoifnilelsepop})
    /\ IF ~HasImm(2) \/ operandStack = <<>> THEN Panic
       ELSE IF is_nil(Top(operandStack)) THEN Continue(operandStack, Imm2)
       ELSE Continue(Pop(operandStack), pc + 3)
    /\ UNCHANGED inputs

\* lines 630-641
GotoifnonnilelsepopArm ==
    /\ Fetch({Gotoifnonnilelsepop})
    /\ IF ~HasImm(2) \/ operandStack = <<>> THEN Panic
       ELSE IF is_not_nil(Top(operandStack)) THEN Continue(operandStack, Imm2)
       ELSE Continue(Pop(operandStack), pc + 3)
    /\ UNCHANGED inputs

\* a faulty variant: a table of five entries or fewer is never searched
SwitchArm_SkipsSmallTables ==
    /\ Fetch({Switch})
    /\ IF operandStack = <<>> THEN Panic
       ELSE IF ~is_hash_table(Top(operandStack))
       THEN Signal(list(<<Sym("wrong-type-argument"), Top(operandStack)>>))
       ELSE IF Len(operandStack) < 2 THEN Panic
       ELSE LET ht == Top(operandStack).elems
                key == Top(Pop(operandStack))
                idx == IF Len(ht) <= 10 THEN 0 ELSE ht_lookup(ht, key, 1)
            IN  IF idx = 0 THEN Continue(Pop(Pop(operandStack)), pc + 1)
                ELSE IF get_hash_value(ht, idx).n < 0 THEN Panic
                ELSE Continue(Pop(Pop(operandStack)), get_hash_value(ht, idx).n)
    /\ UNCHANGED inputs

\* lines 643-666
SwitchArm ==
    /\ Fetch({Switch})
    /\ IF operandStack = <<>> THEN Panic
       ELSE IF ~is_hash_table(Top(operandStack))
       THEN Signal(list(<<Sym("wrong-type-argument"), Top(operandStack)>>))
       ELSE IF Len(operandStack) < 2 THEN Panic
       ELSE LET ht == Top(operandStack).elems
                key == Top(Pop(operandStack))
                idx == ht_lookup(ht, key, 1)
            IN  IF idx = 0 THEN Continue(Pop(Pop(operandStack)), pc + 1)
                ELSE IF get_hash_value(ht, idx).n < 0 THEN Panic
                ELSE Continue(Pop(Pop(operandStack)), get_hash_value(ht, idx).n)
    /\ UNCHANGED inputs

\* lines 668-676
ListpArm ==
    /\ Fetch({Listp})
    /\ IF operandStack = <<>> THEN Panic
       ELSE Continue(Append(Pop(operandStack), FromBool(is_list(Top(operandStack)))), pc + 1)
    /\ UNCHANGED inputs

\* lines 677-685
SymbolpArm ==
    /\ Fetch({Symbolp})
    /\ IF operandStack = <<>> THEN Panic
       ELSE Continue(Append(Pop(operandStack), FromBool(is_symbol(Top(operandStack)))), pc + 1)
    /\ UNCHANGED inputs

\* lines 686-694
ConspArm ==
    /\ Fetch({Consp})
    /\ IF operandStack = <<>> THEN Panic
       ELSE Continue(Append(Pop(operandStack), FromBool(is_cons(Top(operandStack)))), pc + 1)
    /\ UNCHANGED inputs

\* lines 695-703
StringpArm ==
    /\ Fetch({Stringp})
    /\ IF operandStack = <<>> THEN Panic
       ELSE Continue(Append(Pop(operandStack), FromBool(is_string(Top(operandStack)))), pc + 1)
    /\ UNCHANGED inputs

\* a faulty variant: the two operands are compared by structure
EqArm_ComparesStructure ==
    /\ Fetch({Eq})
    /\ IF Len(operandStack) < 2 THEN Panic
       ELSE Continue(Append(Pop(Pop(operandStack)),
                            FromBool(equal(Top(operandStack), Top(Pop(operandStack))))),
                     pc + 1)
    /\ UNCHANGED inputs

\* lines 704-709
EqArm ==
    /\ Fetch({Eq})
    /\ IF Len(operandStack) < 2 THEN Panic
       ELSE Continue(Append(Pop(Pop(operandStack)),
                            FromBool(eq(Top(operandStack), Top(Pop(operandStack))))),
                     pc + 1)
    /\ UNCHANGED inputs

\* lines 710-715
EqualArm ==
    /\ Fetch({Equal})
    /\ IF Len(operandStack) < 2 THEN Panic
       ELSE Continue(Append(Pop(Pop(operandStack)),
                            FromBool(equal(Top(operandStack), Top(Pop(operandStack))))),
                     pc + 1)
    /\ UNCHANGED inputs

\* line 716: an empty arm
EltArm ==
    /\ Fetch({Elt})
    /\ UNCHANGED <<operandStack, pc, specpdl, symval, handlerlist, status, result>>
    /\ UNCHANGED inputs

\* a faulty variant: the top is returned and left on the stack
ReturnArm_KeepsTop ==
    /\ Fetch({Return})
    /\ IF operandStack = <<>> THEN Panic
       ELSE /\ status' = "returned"
            /\ result' = Top(operandStack)
            /\ UNCHANGED <<operandStack, pc, specpdl, symval, handlerlist>>
    /\ UNCHANGED inputs

\* lines 718-720
ReturnArm ==
    /\ Fetch({Return})
    /\ IF operandStack = <<>> THEN Panic
       ELSE /\ status' = "returned"
            /\ result' = Top(operandStack)
            /\ operandStack' = Pop(operandStack)
            /\ UNCHANGED <<pc, specpdl, symval, handlerlist>>
    /\ UNCHANGED inputs

\* lines 722-725
DupArm ==
    /\ Fetch({Dup})
    /\ IF operandStack = <<>> THEN Panic
       ELSE Continue(Append(operandStack, Top(operandStack)), pc + 1)
    /\ UNCHANGED inputs

\* the opcodes of the enum that have an arm of their own
ImplementedOps ==
    ((Stack_ref + 1) .. (Stack_ref + 7)) \cup Family(Varref) \cup Family(Varset)
        \cup Family(Varbind) \cup Family(Call) \cup Family(Unbind)
        \cup {Constant, Constant2, Pophandler, Pushconditioncase, Pushcatch, Goto,
              Gotoifnil, Gotoifnonnil, Gotoifnilelsepop, Gotoifnonnilelsepop, Switch,
              Listp, Symbolp, Consp, Stringp, Eq, Equal, Elt, Return, Dup}

\* lines 726-728: every other opcode of the enum panics "Unimplemented"
UnimplementedArm ==
    /\ Fetch(OpCodeTable \ ImplementedOps)
    /\ Panic
    /\ UNCHANGED inputs

(***************************************************************************)
(* The inputs the model runs the interpreter on.                           *)
(***************************************************************************)
SeqsUpTo(S, n) == UNION {[1 .. k -> S] : k \in 0 .. n}
SymX == Sym("x")
\* the values arguments are drawn from
StackValues == {Qnil, Fixnum(1), SymX}
BindValues == {Fixnum(1), Fixnum(2)}
\* the constant pool: a bindable symbol, a fixnum, the constant symbol nil
ConstPool == <<SymX, Fixnum(1), Qnil>>
\* a template word: bits 0-6 mandatory, bit 7 rest, bits 8+ nonrest
Template(m, r, nr) == Fixnum(m + 128 * r + 256 * nr)
Templates ==
    {Qnil} \cup {Template(m, r, nr) : m \in 0 .. MaxTmpl, r \in {0, 1}, nr \in 0 .. MaxTmpl}
\* the caller's environment: the dynamic value of x, the bindings and the
\* handlers that are already on the ambient stacks
InitialSymval == [x |-> Fixnum(7)]
NoBindings == <<>>
CallerBinding == <<[symbol |-> SymX, old_value |-> Fixnum(8)]>>
TopLevelHandler ==
    [kind |-> "catch", tag_or_conditions |-> Sym("top-level"), target_pc |-> 0,
     stack_depth |-> 0, binding_depth |-> 0]

ImmBytes == {0, 1, 2, 3}
HiBytes == {0, 1}
FamilyBases == {Stack_ref, Varref, Varset, Varbind, Call, Unbind}
\* opcodes that are followed by a two-byte immediate
ThreeByteOps ==
    {b + 7 : b \in FamilyBases}
        \cup {Constant2, Goto, Gotoifnil, Gotoifnonnil, Gotoifnilelsepop,
              Gotoifnonnilelsepop, Pushconditioncase, Pushcatch, Stack_set2}
\* the opcode bytes the programs are built from: every arm of the match, the
\* escapes of every family, bytes outside the enum (51, 169, 191) and the
\* constant range up to and past the pool's length, and the opcodes of the
\* enum that the match has no arm for (Stack_ref, Nth, Discard, Stack_set,
\* Stack_set2)
OneByteOps ==
    {b + k : b \in FamilyBases, k \in {0, 1, 2, 5, 6, 7}}
        \cup {Pophandler, Pushconditioncase, Pushcatch, 51, Nth, Symbolp, Consp, Stringp,
              Listp, Eq, Constant2, Goto, Gotoifnil, Gotoifnonnil, Gotoifnilelsepop,
              Gotoifnonnilelsepop, Return, Discard, Dup, Equal, Elt, 169, Stack_set,
              Stack_set2, Switch, 191, Constant, 193, 194, 195, 255}
\* one instruction, whole or cut short
Instructions ==
    {<<o>> : o \in OneByteOps}
        \cup {<<b + 6, i>> : b \in FamilyBases, i \in ImmBytes}
        \cup {<<Stack_set, i>> : i \in ImmBytes}
        \cup {<<o, i>> : o \in ThreeByteOps, i \in ImmBytes}
        \cup {<<o, lo, hi>> : o \in ThreeByteOps, lo \in ImmBytes, hi \in HiBytes}
        \cup {<<o, 255, 255>> : o \in ThreeByteOps}
\* dynamic binding: every sequence of varbind x, varset x, unbind 1, unbind 2
BindOps == {Varbind, Varset, Unbind + 1, Unbind + 2}
BindPrograms == SeqsUpTo(BindOps, MaxVarsets + 2) \ {<<>>}

\* every inline opcode of the six families, and their escapes with small operands
DeepPrograms ==
    {<<b + k>> : b \in FamilyBases, k \in 0 .. 5}
        \cup {<<b + 6, i>> : b \in FamilyBases, i \in 0 .. MaxDeep}
        \cup {<<b + 7, i, 0>> : b \in FamilyBases, i \in 0 .. MaxDeep}

\* the specification's scenarios: a branch that keeps or pops the tested
\* constant, a comparison of two constants, a Dup that is returned at once
ScenarioTarget == 5
ScenarioPrograms ==
    {<<Constant, Gotoifnilelsepop, ScenarioTarget, 0, Constant + 1, Return>>,
     <<Constant, Gotoifnonnilelsepop, ScenarioTarget, 0, Constant + 1, Return>>,
     <<Constant, Constant + 1, Eq, Return>>,
     <<Constant, Constant + 1, Equal, Return>>,
     <<Dup, Return>>}
\* constant pools of two entries: nil or not, the same object twice, two
\* objects, two strings of the same text
ScenarioPools ==
    {<<Qnil, Fixnum(1)>>, <<SymX, Fixnum(1)>>, <<Fixnum(2), Fixnum(1)>>,
     <<SymX, SymX>>, <<SymX, Sym("y")>>,
     <<Str(1, "a"), Str(1, "a")>>, <<Str(1, "a"), Str(2, "a")>>}
\* a pool with an entry for every opcode of the constant range, all distinct
FullPool == [k \in 1 .. (256 - Constant) |-> Fixnum(k)]
ConstantPrograms ==
    {<<o>> : o \in Constant .. 255}
        \cup {<<Constant2, lo, 0>> : lo \in {0, 1, 255 - Constant, 256 - Constant}}

\* jump tables of 0 .. MaxTable entries: key k branches to offset 10 + k; and
\* a table keyed by a symbol and by nil
JumpTable(n) ==
    HashTable(n, [j \in 1 .. 2 * n |->
                    IF j % 2 = 1 THEN Fixnum((j + 1) \div 2) ELSE Fixnum(10 + j \div 2)])
SymbolTable == HashTable(100, <<SymX, Fixnum(3), Qnil, Fixnum(0)>>)
SwitchTables == {JumpTable(n) : n \in 0 .. MaxTable} \cup {SymbolTable}
SwitchKeys == {Fixnum(k) : k \in 0 .. MaxTable + 1} \cup {SymX, Qnil, Sym("y")}
\* the operand stacks Switch is run on: the key and the table on top of
\* nothing or of one more operand, and a table with no key under it
SwitchStacks ==
    {below \o <<key, ht>> : below \in {<<>>, <<SymX>>}, key \in SwitchKeys, ht \in SwitchTables}
        \cup {<<ht>> : ht \in SwitchTables}

\* the argument binder, on every template and argument list
InitBinder ==
    /\ bytecode = <<Return>>
    /\ maxdepth \in 0 .. MaxDepth
    /\ args_template \in Templates
    /\ args \in SeqsUpTo(StackValues, MaxArgs)
    /\ specpdl = NoBindings

\* one instruction on every operand stack: the template makes every argument
\* a positional one
InitInstruction ==
    /\ bytecode \in Instructions
    /\ maxdepth = MaxDepth
    /\ args \in SeqsUpTo(StackValues, MaxArgs)
    /\ args_template = Template(0, 0, Len(args))
    /\ specpdl \in {NoBindings, CallerBinding}

InitBinding ==
    /\ bytecode \in BindPrograms
    /\ maxdepth = MaxDepth
    /\ args \in SeqsUpTo(BindValues, MaxArgs)
    /\ args_template = Template(0, 0, Len(args))
    /\ specpdl \in {NoBindings, CallerBinding}

\* the operand families on stacks of distinct values 1, 2, ..., up to MaxDeep deep
InitDeepStack ==
    /\ bytecode \in DeepPrograms
    /\ maxdepth = MaxDepth
    /\ args \in {[k \in 1 .. n |-> Fixnum(k)] : n \in 0 .. MaxDeep}
    /\ args_template = Template(0, 0, Len(args))
    /\ specpdl = CallerBinding

\* one value of every type, for the type predicates
PredicateValues ==
    {Qnil, Qt, SymX, Fixnum(1), Str(1, "a"), list(<<Fixnum(1), SymX>>),
     Fcons(SymX, Fixnum(1)), JumpTable(0)}
PredicateOps == {Consp, Symbolp, Stringp, Listp, Numberp, Integerp}

\* every type predicate on a value of every type, alone or above another operand
InitPredicate ==
    /\ bytecode \in {<<p>> : p \in PredicateOps}
    /\ maxdepth = MaxDepth
    /\ args \in {<<v>> : v \in PredicateValues} \cup {<<SymX, v>> : v \in PredicateValues}
    /\ args_template = Template(0, 0, Len(args))
    /\ specpdl = CallerBinding

\* Switch on every key and jump table
InitSwitch ==
    /\ bytecode \in {<<Switch>>, <<Switch, Return>>}
    /\ maxdepth = MaxDepth
    /\ args \in SwitchStacks
    /\ args_template = Template(0, 0, Len(args))
    /\ specpdl = NoBindings

\* the scenarios, on every operand stack and pool
InitScenario ==
    /\ bytecode \in ScenarioPrograms
    /\ constantVector \in ScenarioPools
    /\ maxdepth = MaxDepth
    /\ args \in SeqsUpTo(StackValues, MaxArgs)
    /\ args_template = Template(0, 0, Len(args))
    /\ specpdl = NoBindings

\* every opcode of the constant range, on a pool that has an entry for each
InitConstants ==
    /\ bytecode \in ConstantPrograms
    /\ constantVector = FullPool
    /\ maxdepth = MaxDepth
    /\ args \in SeqsUpTo(StackValues, 1)
    /\ args_template = Template(0, 0, Len(args))
    /\ specpdl = NoBindings

\* lines 261-282: the state when the binder is reached
Init ==
    /\ \/ /\ InitBinder \/ InitInstruction \/ InitBinding \/ InitDeepStack \/ InitSwitch
                \/ InitPredicate
          /\ constantVector = ConstPool
       \/ InitScenario
       \/ InitConstants
    /\ operandStack = <<>>
    /\ pc = 0
    /\ op = OpUnset
    /\ symval = InitialSymval
    /\ handlerlist = <<TopLevelHandler>>
    /\ status = "entry"
    /\ result = Qnil

Next ==
    \/ ArityError
    \/ BindArgs
    \/ NoTemplate
    \/ FetchOutOfBounds
    \/ NoneArm
    \/ StackRefArm
    \/ VarrefArm
    \/ VarsetArm
    \/ VarbindArm
    \/ CallArm
    \/ UnbindArm
    \/ ConstantArm
    \/ Constant2Arm
    \/ PophandlerArm
    \/ PushconditioncaseArm
    \/ PushcatchArm
    \/ GotoArm
    \/ GotoifnilArm
    \/ GotoifnonnilArm
    \/ GotoifnilelsepopArm
    \/ GotoifnonnilelsepopArm
    \/ SwitchArm
    \/ ListpArm
    \/ SymbolpArm
    \/ ConspArm
    \/ StringpArm
    \/ EqArm
    \/ EqualArm
    \/ EltArm
    \/ ReturnArm
    \/ DupArm
    \/ UnimplementedArm

Spec == Init /\ [][Next]_vars

(***************************************************************************)
(* The claims.  Their side of every statement is written out from the      *)
(* specification's words, not taken from the operators above.              *)
(***************************************************************************)
HasTemplate == is_not_nil(args_template)
\* the binder has run and no opcode has been fetched yet
AtLoopStart == status = "running" /\ op = OpUnset
TmplMandatory == args_template.n % 128
TmplHasRest == (args_template.n \div 128) % 2 = 1
TmplNonrest == args_template.n \div 256
NArgs == Len(args)
MinNonrestNargs == IF TmplNonrest < NArgs THEN TmplNonrest ELSE NArgs
NargsOutOfRange == NArgs < TmplMandatory \/ (~TmplHasRest /\ NArgs > TmplNonrest)
IsArityError ==
    /\ status = "signaled"
    /\ is_cons(result)
    /\ result.elems[1] = Sym("wrong-number-of-arguments")
ArityTriple(m, nr, n) ==
    list(<<Sym("wrong-number-of-arguments"), Fcons(Fixnum(m), Fixnum(nr)), Fixnum(n)>>)

\* C1: with a template present, the arity error is signalled, carrying exactly
\* (mandatory, nonrest, nargs), if and only if nargs lies outside
\* [mandatory, maxargs]; on that error nothing is pushed and nothing is executed.
C1_ArityErrorIffOutOfRange ==
    (HasTemplate /\ status # "entry") =>
        /\ NargsOutOfRange <=> IsArityError
        /\ IsArityError =>
            /\ result = ArityTriple(TmplMandatory, TmplNonrest, NArgs)
            /\ operandStack = <<>>
            /\ op = OpUnset
            /\ pc = 0

\* the spec's scenario: template (1, 2, no rest), three arguments: error (1, 2, 3)
C1_Witness ==
    /\ args_template = Template(1, 0, 2)
    /\ NArgs = 3
    /\ status = "signaled"
    /\ result = ArityTriple(1, 2, 3)

\* C2: for every template and every in-range nargs, when the loop starts the
\* first min(nonrest, nargs) slots of the operand stack are the first
\* min(nonrest, nargs) arguments in order; missing optional arguments are not
\* padded: without the rest flag the depth is exactly min(nonrest, nargs).
C2_PositionalArgumentsPushed ==
    (HasTemplate /\ AtLoopStart) =>
        /\ Len(operandStack) >= MinNonrestNargs
        /\ Len(operandStack) <= MinNonrestNargs + 1
        /\ SubSeq(operandStack, 1, MinNonrestNargs) = SubSeq(args, 1, MinNonrestNargs)
        /\ ~TmplHasRest => Len(operandStack) = MinNonrestNargs

\* the spec's scenario: template (1, 2, no rest), args [A]: the binder pushes [A]
C2_Witness ==
    /\ AtLoopStart
    /\ args_template = Template(1, 0, 2)
    /\ NArgs = 1
    /\ operandStack = args

\* C3: with the rest flag set and nargs in range, exactly one list of the
\* remaining arguments args[nonrest ..] follows the positional values (the
\* empty list when none remain); with the flag clear no list is pushed.
C3_RestListAlwaysPushed ==
    (HasTemplate /\ AtLoopStart) =>
        IF TmplHasRest
        THEN /\ Len(operandStack) = MinNonrestNargs + 1
             /\ Top(operandStack) = list(SubSeq(args, MinNonrestNargs + 1, NArgs))
        ELSE Len(operandStack) = MinNonrestNargs

\* C4 as claimed: with no template the arguments are pushed as they are, so
\* the loop starts with the operand stack equal to the argument list.
C4_NilTemplatePushesArgs ==
    (~HasTemplate /\ AtLoopStart) => operandStack = args

\* C4 as amended: with no template there is no arity validation and no
\* argument is pushed: the loop starts on an empty operand stack.
C4_NilTemplatePushesNothing ==
    (~HasTemplate /\ status # "entry" /\ op = OpUnset) =>
        /\ status = "running"
        /\ operandStack = <<>>
        /\ pc = 0

C4_Witness ==
    /\ ~HasTemplate
    /\ AtLoopStart
    /\ NArgs = 2
    /\ operandStack = <<>>

\* C5: once the loop has fetched a byte that is neither in the opcode table
\* nor in the constant range, the invocation has ended in a fatal error.
C5_UnknownOpcodeIsFatal ==
    (op # OpUnset /\ op \notin OpCodeTable /\ op < 192) => status = "panicked"

\* C6: at every instruction boundary the operand stack is no deeper than the
\* declared max_stack_depth.
C6_StackWithinMaxdepth ==
    status = "running" => Len(operandStack) <= maxdepth

\* the operand N of the instruction at pc, for a family with base opcode b, as
\* the specification encodes it: inline, one byte, or two bytes little-endian
SpecOperand(b) ==
    IF Byte(pc) <= b + 5 THEN Byte(pc) - b
    ELSE IF Byte(pc) = b + 6 THEN Byte(pc + 1)
    ELSE Byte(pc + 1) + 256 * Byte(pc + 2)
SpecWidth(b) == IF Byte(pc) <= b + 5 THEN 1 ELSE IF Byte(pc) = b + 6 THEN 2 ELSE 3
\* the instruction at pc lies wholly inside the byte string
SpecWhole(b) == pc + SpecWidth(b) <= Len(bytecode)
\* how many operands the instruction at pc needs on the operand stack
OperandsNeeded ==
    IF Byte(pc) \in Family(Stack_ref) THEN
        (IF SpecWhole(Stack_ref) THEN SpecOperand(Stack_ref) + 1 ELSE 0)
    ELSE IF Byte(pc) \in Family(Call) THEN
        (IF SpecWhole(Call) THEN SpecOperand(Call) + 1 ELSE 0)
    ELSE IF Byte(pc) \in Family(Varset) \cup Family(Varbind)
                \cup {Gotoifnil, Gotoifnonnil, Gotoifnilelsepop, Gotoifnonnilelsepop,
                      Listp, Symbolp, Consp, Stringp, Return, Dup} THEN 1
    ELSE IF Byte(pc) \in {Eq, Equal, Switch} THEN 2
    ELSE 0

\* C7: an instruction that needs more operands than the operand stack holds
\* ends the invocation; it never goes on running and never returns a value.
C7_UnderflowIsFatal ==
    [][(Fetchable /\ OperandsNeeded > Len(operandStack))
        => status' \notin {"running", "returned"}]_vars

\* the saved value a symbol gets back when the entries popped are restored
\* from the top down: that of the deepest popped entry that names it
RestoredValue(name, popped) ==
    IF \E k \in 1 .. Len(popped) : popped[k].symbol.name = name
    THEN popped[CHOOSE k \in 1 .. Len(popped) :
                    /\ popped[k].symbol.name = name
                    /\ \A j \in 1 .. (k - 1) : popped[j].symbol.name # name].old_value
    ELSE symval[name]
\* the byte string is varbind x, any number of varset x, unbind 1
IsBindSetUnbind(code) ==
    /\ Len(code) >= 2
    /\ code[1] = Varbind
    /\ code[Len(code)] = Unbind + 1
    /\ \A k \in 2 .. (Len(code) - 1) : code[k] = Varset
\* unbind[N] pops exactly N entries and restores their saved values
UnbindPopsN ==
    (Fetchable /\ Byte(pc) \in Family(Unbind) /\ status' = "running") =>
        LET N == SpecOperand(Unbind)
            kept == Len(specpdl) - N
        IN  /\ kept >= 0
            /\ specpdl' = SubSeq(specpdl, 1, kept)
            /\ \A name \in DOMAIN symval :
                 symval'[name] = RestoredValue(name, SubSeq(specpdl, kept + 1, Len(specpdl)))
            /\ pc' = pc + SpecWidth(Unbind)
            /\ operandStack' = operandStack

\* C8: varbind x, then varsets of x, then unbind 1 leave x with the value it
\* had before the varbind and the binding stack at its depth before it; and
\* every unbind[N] pops exactly N entries, restoring saved values last-in
\* first-out.
C8_VarbindUnbindRestores ==
    /\ []((IsBindSetUnbind(bytecode) /\ status = "running" /\ pc = Len(bytecode))
            => (symval = InitialSymval /\ specpdl \in {NoBindings, CallerBinding}))
    /\ [][UnbindPopsN]_vars

\* varbind x = 1, varset x = 2, varset x = 1, unbind 1: x is 7 again
C8_Witness ==
    /\ bytecode = <<Varbind, Varset, Varset, Unbind + 1>>
    /\ args = <<Fixnum(1), Fixnum(2), Fixnum(1)>>
    /\ status = "running"
    /\ pc = 4
    /\ symval = InitialSymval
    /\ specpdl = CallerBinding

\* Non-local exit (section 4.3 of the specification): where a throw of tag
\* with value val resumes, given the handler stack and the operand stack
RECURSIVE HandlerSearch(_, _, _)
HandlerSearch(hl, tag, k) ==
    IF k = 0 THEN 0
    ELSE IF hl[k].kind = "catch" /\ eq(hl[k].tag_or_conditions, tag) THEN k
    ELSE HandlerSearch(hl, tag, k - 1)
ThrowResume(hl, stack, tag, val) ==
    LET k == HandlerSearch(hl, tag, Len(hl))
    IN  IF k = 0
        THEN [resumed |-> FALSE, pc |-> 0, stack |-> <<>>, handlers |-> <<>>]
        ELSE [resumed |-> TRUE,
              pc |-> hl[k].target_pc,
              stack |-> Append(SubSeq(stack, 1, hl[k].stack_depth), val),
              handlers |-> SubSeq(hl, 1, k - 1)]

\* C9: after a Pushcatch, a throw with the matching tag resumes at the target
\* the Pushcatch recorded, with the thrown value on top of the operand stack
\* cut back to its depth at push time, the matching handler frame popped.
C9_PushcatchThenThrowResumes ==
    [][(Fetchable /\ Byte(pc) = Pushcatch /\ HasImm(2) /\ operandStack # <<>>)
        => /\ status' = "running"
           /\ \A val \in StackValues :
                ThrowResume(handlerlist', operandStack', Top(operandStack), val)
                    = [resumed |-> TRUE,
                       pc |-> Imm2,
                       stack |-> Append(Pop(operandStack), val),
                       handlers |-> handlerlist]]_vars

\* C10: Call[N] applies the operand N slots below the top to the N operands
\* above it, bottom to top, pops all N+1 and pushes the result: the depth
\* drops by N, the slots below the procedure are unchanged, the new top is
\* the result of the application.
C10_CallAppliesAndReplaces ==
    [][(Fetchable /\ Byte(pc) \in Family(Call) /\ status' = "running")
        => LET N == SpecOperand(Call)
               len == Len(operandStack)
           IN  /\ len >= N + 1
               /\ Len(operandStack') = len - N
               /\ SubSeq(operandStack', 1, len - N - 1) = SubSeq(operandStack, 1, len - N - 1)
               /\ Top(operandStack') = funcall([k \in 1 .. (N + 1) |-> operandStack[len - N - 1 + k]])
               /\ pc' = pc + SpecWidth(Call)
               /\ specpdl' = specpdl]_vars

\* call with a two-byte operand 2: the three arguments become one result
C10_Witness ==
    /\ bytecode = <<Call + 7, 2, 0>>
    /\ NArgs = 3
    /\ status = "running"
    /\ pc = 3
    /\ operandStack = <<funcall(args)>>

\* a two-byte branch target as the specification encodes it: little-endian
SpecTarget == Byte(pc + 1) + 256 * Byte(pc + 2)
\* the instruction at pc is an opcode followed by a whole two-byte immediate
SpecWhole3 == pc + 3 <= Len(bytecode)
\* one of the two peeking branches is at pc, and its condition holds of the top
ElsePopTaken ==
    IF Byte(pc) = Gotoifnilelsepop THEN Top(operandStack) = Qnil
    ELSE Top(operandStack) # Qnil
ElsePopEffect ==
    (Fetchable /\ Byte(pc) \in {Gotoifnilelsepop, Gotoifnonnilelsepop}
        /\ SpecWhole3 /\ operandStack # <<>>)
    => /\ status' = "running"
       /\ specpdl' = specpdl /\ handlerlist' = handlerlist /\ symval' = symval
       /\ IF ElsePopTaken
          THEN pc' = SpecTarget /\ operandStack' = operandStack
          ELSE pc' = pc + 3 /\ operandStack' = Pop(operandStack)
\* [Constant(0), Gotoifnilelsepop(target), Constant(1), Return], Return at target
IsNilElsePopScenario ==
    bytecode = <<Constant, Gotoifnilelsepop, ScenarioTarget, 0, Constant + 1, Return>>
IsNonnilElsePopScenario ==
    bytecode = <<Constant, Gotoifnonnilelsepop, ScenarioTarget, 0, Constant + 1, Return>>
ElsePopScenario ==
    (IsNilElsePopScenario \/ IsNonnilElsePopScenario) =>
        /\ status \in {"entry", "running", "returned"}
        /\ status = "returned" =>
            /\ result = IF IsNilElsePopScenario
                        THEN (IF constantVector[1] = Qnil
                              THEN constantVector[1] ELSE constantVector[2])
                        ELSE (IF constantVector[1] # Qnil
                              THEN constantVector[1] ELSE constantVector[2])
            /\ operandStack = args

\* C11: gotoifnilelsepop (gotoifnonnilelsepop) with a nil (non-nil) top takes
\* the branch: pc becomes the two-byte target and the operand stack is left as
\* it is; otherwise exactly the top is popped and pc advances by 3.  So the
\* scenario [Constant(0), Gotoifnilelsepop(target), Constant(1), Return]
\* returns constant 0 when it is nil and constant 1 when it is not.
C11_ElsePopPeeksOrPops ==
    /\ []ElsePopScenario
    /\ [][ElsePopEffect]_vars

\* the scenario with a nil constant 0: nil itself is returned from the target
C11_Witness ==
    /\ IsNilElsePopScenario
    /\ constantVector = <<Qnil, Fixnum(1)>>
    /\ NArgs = 2
    /\ status = "returned"
    /\ result = Qnil
    /\ operandStack = args

\* C12: stack-ref[N], for every operand N (inline, one byte or two bytes) and
\* every operand stack deeper than N, pushes a copy of the operand N slots
\* below the top and goes on to the next instruction; with N = 0 it pushes a
\* copy of the top itself, as Dup does.
C12_StackRefPushesNthBelowTop ==
    [][(Fetchable /\ Byte(pc) \in Family(Stack_ref) /\ SpecWhole(Stack_ref)
            /\ Len(operandStack) > SpecOperand(Stack_ref))
        => /\ status' = "running"
           /\ operandStack' =
                Append(operandStack,
                       operandStack[Len(operandStack) - SpecOperand(Stack_ref)])
           /\ pc' = pc + SpecWidth(Stack_ref)]_vars

\* the operand N of stack-set (one byte) or stack-set2 (two bytes) at pc
StackSetOperand == IF Byte(pc) = Stack_set THEN Byte(pc + 1) ELSE SpecTarget
StackSetWidth == IF Byte(pc) = Stack_set THEN 2 ELSE 3

\* C13: stack-set[N] and stack-set2 write the top into the slot N below it and
\* pop the top: the depth is one less, slot N holds the former top, every
\* other slot is unchanged, and the next instruction follows.
C13_StackSetMovesTop ==
    [][(Fetchable /\ Byte(pc) \in {Stack_set, Stack_set2}
            /\ pc + StackSetWidth <= Len(bytecode)
            /\ StackSetOperand >= 1 /\ Len(operandStack) > StackSetOperand)
        => LET len == Len(operandStack)
               slot == len - StackSetOperand
           IN  /\ status' = "running"
               /\ Len(operandStack') = len - 1
               /\ operandStack'[slot] = Top(operandStack)
               /\ \A k \in 1 .. (len - 1) : k # slot => operandStack'[k] = operandStack[k]
               /\ pc' = pc + StackSetWidth]_vars

\* two values are identical: the same object, not merely alike
Identical(a, b) == a = b
Truthy(v) == v # Qnil
EqEffect ==
    (Fetchable /\ Byte(pc) = Eq /\ Len(operandStack) >= 2)
    => LET len == Len(operandStack)
       IN  /\ status' = "running"
           /\ Len(operandStack') = len - 1
           /\ SubSeq(operandStack', 1, len - 2) = SubSeq(operandStack, 1, len - 2)
           /\ Truthy(Top(operandStack')) <=> Identical(operandStack[len], operandStack[len - 1])
           /\ pc' = pc + 1
           /\ specpdl' = specpdl /\ handlerlist' = handlerlist /\ symval' = symval
\* [Constant(0), Constant(1), Eq, Return]
IsEqScenario == bytecode = <<Constant, Constant + 1, Eq, Return>>
EqScenario ==
    IsEqScenario =>
        /\ status \in {"entry", "running", "returned"}
        /\ status = "returned" =>
            /\ Truthy(result) <=> Identical(constantVector[1], constantVector[2])
            /\ operandStack = args

\* C14: Eq pops exactly two operands and pushes a truthy value if and only if
\* they are the same object: the depth drops by one, the slots below are
\* unchanged, pc advances by 1.  [Constant(0), Constant(1), Eq, Return]
\* returns a truthy value over [X, X] and a falsy one over [X, Y].
C14_EqComparesIdentity ==
    /\ []EqScenario
    /\ [][EqEffect]_vars

\* two strings of the same text that are not the same object: falsy
C14_Witness ==
    /\ IsEqScenario
    /\ constantVector = <<Str(1, "a"), Str(2, "a")>>
    /\ status = "returned"
    /\ result = Qnil
    /\ NArgs = 1

DupEffect ==
    (Fetchable /\ Byte(pc) = Dup /\ operandStack # <<>>)
    => /\ status' = "running"
       /\ operandStack' = Append(operandStack, operandStack[Len(operandStack)])
       /\ pc' = pc + 1
ReturnEffect ==
    (Fetchable /\ Byte(pc) = Return /\ operandStack # <<>>)
    => /\ status' = "returned"
       /\ result' = operandStack[Len(operandStack)]
       /\ operandStack' = SubSeq(operandStack, 1, Len(operandStack) - 1)
\* once a value is returned no step of the invocation follows
NothingAfterReturn == status # "returned"
IsDupReturnScenario == bytecode = <<Dup, Return>>
DupReturnScenario ==
    (IsDupReturnScenario /\ NArgs >= 1) =>
        /\ status \in {"entry", "running", "returned"}
        /\ status = "returned" => (result = args[NArgs] /\ operandStack = args)

\* C15: Dup pushes a copy of the top without popping it; Return pops the top,
\* makes it the result of the invocation and no instruction is executed after
\* it.  Dup followed by Return returns the value that was on top before the
\* Dup and leaves the stack with the depth and contents it had before the Dup.
C15_DupThenReturn ==
    /\ []DupReturnScenario
    /\ [][DupEffect /\ ReturnEffect /\ NothingAfterReturn]_vars

\* Dup, Return on [A, B]: B is returned, [A, B] is left
C15_Witness ==
    /\ IsDupReturnScenario
    /\ NArgs = 2
    /\ args[1] # args[2]
    /\ status = "returned"
    /\ result = args[2]
    /\ operandStack = args

\* the constant range is the top 64 of the 256 opcode values; pool entry i
ConstantBase == 256 - 64
PoolEntry(i) == constantVector[i + 1]
ConstantRangeEffect ==
    (Fetchable /\ Byte(pc) >= ConstantBase
        /\ Byte(pc) - ConstantBase < Len(constantVector))
    => /\ status' = "running"
       /\ operandStack' = Append(operandStack, PoolEntry(Byte(pc) - ConstantBase))
       /\ pc' = pc + 1
Constant2Effect ==
    (Fetchable /\ Byte(pc) = Constant2 /\ SpecWhole3 /\ SpecTarget < Len(constantVector))
    => /\ status' = "running"
       /\ operandStack' = Append(operandStack, PoolEntry(SpecTarget))
       /\ pc' = pc + 3

\* C16: every opcode byte op >= 192 whose index op - 192 the pool has pushes
\* constants[op - 192] and uses no further byte of the code: pc advances by
\* exactly 1 and the stack grows by exactly that one value; Constant2 pushes
\* constants[i] for its two-byte little-endian immediate i and advances pc by 3.
C16_ConstantRangePushes ==
    [][ConstantRangeEffect /\ Constant2Effect]_vars

\* the last opcode of the range, as the last byte of the code: entry 63
C16_Witness ==
    /\ bytecode = <<255>>
    /\ constantVector = FullPool
    /\ status = "running"
    /\ pc = 1
    /\ operandStack = Append(args, Fixnum(64))

\* the instruction at pc belongs to the family with base b and is whole
AtFamily(b) == Fetchable /\ Byte(pc) \in Family(b) /\ SpecWhole(b)
\* pool entry N exists and is a symbol whose value can be set or bound
BindableEntry(N) ==
    /\ N < Len(constantVector)
    /\ PoolEntry(N).tag = "symbol"
    /\ PoolEntry(N).name \in DOMAIN symval
\* each family's instruction completes, acts on the operand N its encoding
\* gives and advances pc by the width of the encoding
StackRefDecode ==
    (AtFamily(Stack_ref) /\ Len(operandStack) > SpecOperand(Stack_ref))
    => /\ status' = "running"
       /\ Len(operandStack') = Len(operandStack) + 1
       /\ pc' = pc + SpecWidth(Stack_ref)
VarrefDecode ==
    (AtFamily(Varref) /\ BindableEntry(SpecOperand(Varref)))
    => /\ status' = "running"
       /\ operandStack' = Append(operandStack, symval[PoolEntry(SpecOperand(Varref)).name])
       /\ pc' = pc + SpecWidth(Varref)
VarsetDecode ==
    (AtFamily(Varset) /\ BindableEntry(SpecOperand(Varset)) /\ operandStack # <<>>)
    => /\ status' = "running"
       /\ symval'[PoolEntry(SpecOperand(Varset)).name] = Top(operandStack)
       /\ pc' = pc + SpecWidth(Varset)
VarbindDecode ==
    (AtFamily(Varbind) /\ BindableEntry(SpecOperand(Varbind)) /\ operandStack # <<>>)
    => /\ status' = "running"
       /\ symval'[PoolEntry(SpecOperand(Varbind)).name] = Top(operandStack)
       /\ Len(specpdl') = Len(specpdl) + 1
       /\ Top(specpdl').symbol = PoolEntry(SpecOperand(Varbind))
       /\ pc' = pc + SpecWidth(Varbind)
CallDecode ==
    (AtFamily(Call) /\ Len(operandStack) > SpecOperand(Call))
    => \/ status' = "exited"
       \/ /\ status' = "running"
          /\ Len(operandStack') = Len(operandStack) - SpecOperand(Call)
          /\ pc' = pc + SpecWidth(Call)
UnbindDecode ==
    (AtFamily(Unbind) /\ Len(specpdl) >= SpecOperand(Unbind))
    => /\ status' = "running"
       /\ Len(specpdl') = Len(specpdl) - SpecOperand(Unbind)
       /\ pc' = pc + SpecWidth(Unbind)
\* a branch that is taken goes to low_byte | (high_byte << 8)
BranchDecode ==
    /\ (Fetchable /\ Byte(pc) = Goto /\ SpecWhole3)
        => (status' = "running" /\ pc' = SpecTarget)
    /\ (Fetchable /\ SpecWhole3 /\ operandStack # <<>>
          /\ Byte(pc) \in {Gotoifnil, Gotoifnonnil, Gotoifnilelsepop, Gotoifnonnilelsepop})
        => (status' = "running" /\ pc' \in {SpecTarget, pc + 3})

\* C17: in each of the six operand families (stack-ref, varref, varset,
\* varbind, call, unbind) with base opcode b, opcodes b+0..b+5 act on operand
\* (opcode - b) and advance pc by 1, b+6 acts on the following byte and
\* advances pc by 2, b+7 acts on low_byte | (high_byte << 8) of the two
\* following bytes and advances pc by 3; branch targets are decoded the same way.
C17_OperandFamiliesDecode ==
    [][/\ StackRefDecode /\ VarrefDecode /\ VarsetDecode /\ VarbindDecode
       /\ CallDecode /\ UnbindDecode /\ BranchDecode]_vars

\* C18: a stack-ref instruction that completes leaves every slot that existed
\* before it with the value it had, makes the operand stack exactly one
\* deeper, and leaves the binding stack and the handler stack as they were.
C18_StackRefLeavesFrame ==
    [][(Fetchable /\ Byte(pc) \in Family(Stack_ref) /\ status' = "running")
        => /\ Len(operandStack') = Len(operandStack) + 1
           /\ \A k \in 1 .. Len(operandStack) : operandStack'[k] = operandStack[k]
           /\ specpdl' = specpdl
           /\ handlerlist' = handlerlist
           /\ symval' = symval]_vars

\* stack-ref 2 has completed on three operands, under a caller's binding
C18_Witness ==
    /\ bytecode = <<Stack_ref + 2>>
    /\ NArgs = 3
    /\ args[2] # args[3]
    /\ status = "running"
    /\ pc = 1
    /\ Len(operandStack) = 4
    /\ SubSeq(operandStack, 1, 3) = args
    /\ specpdl = CallerBinding

\* the handler frame the specification has Pushcatch / Pushconditioncase push
HandlerFrame ==
    [kind |-> IF Byte(pc) = Pushcatch THEN "catch" ELSE "condition-case",
     tag_or_conditions |-> Top(operandStack),
     target_pc |-> SpecTarget,
     stack_depth |-> Len(operandStack) - 1,
     binding_depth |-> Len(specpdl)]

\* C19: Pushcatch and Pushconditioncase pop exactly one operand (the tag or
\* the condition spec), read a two-byte target, push exactly one handler
\* frame recording the operand, the target, the operand depth after the pop
\* and the binding depth, and go on to the next instruction; the recorded
\* depths do not exceed the depths at that moment.
C19_PushHandlerRecordsFrame ==
    [][(Fetchable /\ Byte(pc) \in {Pushcatch, Pushconditioncase}
            /\ SpecWhole3 /\ operandStack # <<>>)
        => /\ status' = "running"
           /\ operandStack' = Pop(operandStack)
           /\ handlerlist' = Append(handlerlist, HandlerFrame)
           /\ Top(handlerlist').stack_depth <= Len(operandStack')
           /\ Top(handlerlist').binding_depth <= Len(specpdl')
           /\ specpdl' = specpdl
           /\ pc' = pc + 3]_vars

\* C20: a frame's unbind pops only entries the frame itself pushed with
\* varbind: no step of an invocation lowers the binding stack below the depth
\* it had on entry, so every entry the caller had pushed stays in its place.
C20_UnbindKeepsCallerBindings ==
    [][\A k \in 1 .. Len(CallerBinding) :
         (Len(specpdl) >= k /\ specpdl[k] = CallerBinding[k])
         => (Len(specpdl') >= k /\ specpdl'[k] = CallerBinding[k])]_vars

\* a mapping as the specification sees it: the keys and the offset stored for each
MappingSize(m) == Len(m.elems) \div 2
IsKeyOf(m, v) == \E j \in 1 .. MappingSize(m) : m.elems[2 * j - 1] = v
TargetOf(m, v) ==
    m.elems[2 * (CHOOSE j \in 1 .. MappingSize(m) : m.elems[2 * j - 1] = v)].n
IsMapping(m) ==
    /\ m.tag = "hash_table"
    /\ \A j \in 1 .. MappingSize(m) : m.elems[2 * j].n >= 0
SwitchEffect ==
    (Fetchable /\ Byte(pc) = Switch /\ Len(operandStack) >= 2
        /\ IsMapping(operandStack[Len(operandStack)]))
    => LET len == Len(operandStack)
           m == operandStack[len]
           v == operandStack[len - 1]
       IN  /\ status' = "running"
           /\ operandStack' = SubSeq(operandStack, 1, len - 2)
           /\ pc' = IF IsKeyOf(m, v) THEN TargetOf(m, v) ELSE pc + 1
           /\ specpdl' = specpdl /\ handlerlist' = handlerlist /\ symval' = symval

\* C21: Switch pops exactly two operands, the mapping from the top and the
\* value below it; when the value is a key of the mapping pc becomes the
\* offset stored for that key, otherwise pc advances by 1; the decision is
\* the same for a mapping of any size, of five entries or fewer included.
C21_SwitchBranchesOnKey ==
    [][SwitchEffect]_vars

\* key 2 of a three-entry table: the branch goes to offset 12
C21_Witness ==
    /\ bytecode = <<Switch>>
    /\ args = <<SymX, Fixnum(2), JumpTable(3)>>
    /\ status = "running"
    /\ pc = 12
    /\ operandStack = <<SymX>>

GotoEffect ==
    (Fetchable /\ Byte(pc) = Goto /\ SpecWhole3)
    => /\ status' = "running"
       /\ pc' = SpecTarget
       /\ operandStack' = operandStack
\* the popping branch at pc has its condition met by the top operand
PopBranchTaken ==
    IF Byte(pc) = Gotoifnil THEN Top(operandStack) = Qnil ELSE Top(operandStack) # Qnil
PopBranchEffect ==
    (Fetchable /\ Byte(pc) \in {Gotoifnil, Gotoifnonnil} /\ SpecWhole3 /\ operandStack # <<>>)
    => /\ status' = "running"
       /\ operandStack' = SubSeq(operandStack, 1, Len(operandStack) - 1)
       /\ pc' = IF PopBranchTaken THEN SpecTarget ELSE pc + 3

\* C22: goto sets pc to its two-byte absolute target and leaves the operand
\* stack as it is; gotoifnil and gotoifnonnil pop exactly one operand whether
\* or not they branch, and set pc to the target if and only if the popped
\* value is nil (non-nil), advancing pc by 3 otherwise.
C22_GotoAndPoppingBranches ==
    [][GotoEffect /\ PopBranchEffect]_vars

\* gotoifnil to 258 on [x, nil]: nil is popped and the branch is taken
C22_Witness ==
    /\ bytecode = <<Gotoifnil, 2, 1>>
    /\ args = <<SymX, Qnil>>
    /\ status = "running"
    /\ pc = 258
    /\ operandStack = <<SymX>>

\* the type test each predicate instruction stands for
TypeTest(opcode, v) ==
    CASE opcode = Consp -> v.tag = "cons"
      [] opcode = Symbolp -> v.tag = "symbol"
      [] opcode = Stringp -> v.tag = "string"
      [] opcode = Listp -> v.tag = "cons" \/ v = Qnil
      [] opcode = Numberp -> v.tag \in {"fixnum", "float"}
      [] opcode = Integerp -> v.tag = "fixnum"
PredicateEffect(opcodes) ==
    (Fetchable /\ Byte(pc) \in opcodes /\ operandStack # <<>>)
    => /\ status' = "running"
       /\ operandStack' =
            Append(SubSeq(operandStack, 1, Len(operandStack) - 1),
                   IF TypeTest(Byte(pc), Top(operandStack)) THEN Sym("t") ELSE Sym("nil"))
       /\ pc' = pc + 1
       /\ specpdl' = specpdl /\ handlerlist' = handlerlist /\ symval' = symval

\* C23: each predicate instruction (consp, symbolp, stringp, listp, numberp,
\* integerp) pops one operand and pushes t or nil according to its type test:
\* the depth is unchanged, the slots below the top are unchanged, the binding
\* and handler stacks are unchanged, and pc advances by 1.
C23_PredicatesPushTypeTest ==
    [][PredicateEffect({Consp, Symbolp, Stringp, Listp, Numberp, Integerp})]_vars

\* the instructions that assign pc a target of their own
BranchOps ==
    {Goto, Gotoifnil, Gotoifnonnil, Gotoifnilelsepop, Gotoifnonnilelsepop, Switch}
\* an iteration of the loop on the opcode at pc makes progress: it moves pc,
\* or changes one of the stacks, or ends the invocation
IterationProgress ==
    \/ pc' # pc
    \/ operandStack' # operandStack
    \/ specpdl' # specpdl
    \/ handlerlist' # handlerlist
    \/ status' # "running"

\* C24: for every opcode of the known table or of the constant range
\* (Pushcatch, Pushconditioncase, Elt and a constant opcode whose index is
\* past the pool's end included), one iteration of the loop changes pc,
\* returns a value or aborts the invocation: no iteration leaves pc, the
\* operand stack and the binding and handler stacks all as they were.  (A
\* branch whose target is its own offset is a loop of the program, not of the
\* interpreter, and is left out.)
C24_EveryIterationProgresses ==
    [][(Fetchable /\ Byte(pc) \in (OpCodeTable \cup (ConstantBase .. 255)) \ BranchOps)
        => IterationProgress]_vars

\* how many immediate bytes the instruction with this opcode reads
ImmediateBytes(opcode) ==
    IF opcode \in {b + 6 : b \in {Stack_ref, Varref, Varset, Varbind, Call, Unbind}} THEN 1
    ELSE IF opcode \in {b + 7 : b \in {Stack_ref, Varref, Varset, Varbind, Call, Unbind}}
                        \cup {Constant2, Goto, Gotoifnil, Gotoifnonnil, Gotoifnilelsepop,
                              Gotoifnonnilelsepop}
    THEN 2
    ELSE 0
\* the invocation aborts: it reads nothing more, changes nothing, returns nothing
Aborts ==
    /\ status' = "panicked"
    /\ result' = result
    /\ operandStack' = operandStack
    /\ specpdl' = specpdl /\ handlerlist' = handlerlist /\ symval' = symval
\* pc at or past the end of the code: no opcode is fetched
NoFetchPastEnd ==
    (status = "running" /\ pc >= Len(bytecode)) => (Aborts /\ op' = op)
\* an immediate that does not lie inside the code is not read
NoTruncatedImmediate ==
    (Fetchable /\ pc + ImmediateBytes(Byte(pc)) >= Len(bytecode)) => Aborts
\* an opcode that was fetched was fetched from an offset inside the code
FetchInsideCode ==
    op' # op => (pc < Len(bytecode) /\ op' = bytecode[pc + 1])

\* C25: every opcode fetch and every read of an immediate uses an offset
\* strictly inside the byte string; when pc is at or past the end (after the
\* last instruction with no Return, after a branch or Switch to a target at or
\* past the code's length) or an immediate is cut short by the end of the
\* code, the invocation aborts: no byte is read and no value is returned.
C25_ReadsStayInsideCode ==
    [][NoFetchPastEnd /\ NoTruncatedImmediate /\ FetchInsideCode]_vars

\* a goto to 65535 in a three-byte code: the next fetch aborts
C25_Witness ==
    /\ bytecode = <<Goto, 255, 255>>
    /\ pc = 65535
    /\ op = Goto
    /\ status = "panicked"

====
